---------------------------- MODULE Spec2Model ----------------------------
(***************************************************************************)
(* A pointer-level model of the generic LRU cache of src/lru_cache.go:     *)
(* a map from keys to list nodes plus a doubly linked list bounded by two  *)
(* sentinel nodes (head, tail).  Nodes live in an arena indexed by small   *)
(* integers; a pointer is an arena index and Nil is the nil pointer.       *)
(***************************************************************************)
EXTENDS Integers, Sequences, FiniteSets, TLC

\* ---------------------------------------------------------------- bounds
MaxCap == 2          \* capacities given to Constructor: 1..MaxCap
MaxKey == 2          \* keys are 0..MaxKey (0 is the zero value of K)
MaxVal == 1          \* values are 0..MaxVal (0 is the zero value of V)

Keys   == 0..MaxKey
Values == 0..MaxVal

\* The threads that call the cache, and the cache they share.
NumThreads == 2
MaxThreadCap == 2    \* capacities of a shared cache: 1..MaxThreadCap
MaxThreadKey == 1    \* keys the threads use: 0..MaxThreadKey
MaxCalls == 3        \* the calls of a run where calls may overlap
Threads == 1..NumThreads
ThreadKeys == 0..MaxThreadKey

\* ------------------------------------------------------- the node arena
Nil     == -1                    \* the nil pointer
NoKey   == -1                    \* "no key" in the call record
NoValue == -1                    \* "no value" in the write history
NodeIds == 0..(MaxCap + 2)       \* two sentinels, capacity nodes, one new node

\* The zero value of Node[K, V]: what &Node[K, V]{} points to.
Node == [key |-> 0, value |-> 0, prev |-> Nil, next |-> Nil]

VARIABLES
    capacity,    \* lru.capacity
    cache,       \* lru.cache: a function from the stored keys to node ids
    head,        \* lru.head
    tail,        \* lru.tail
    nodes,       \* the heap: node id -> [key, value, prev, next]
    panicked,    \* TRUE once a call has panicked on a nil dereference
    last,        \* history: the last call and what it returned
    touchOrder,  \* history: the keys touched since they were last inserted
                 \* and not evicted since, latest touch first
    written,     \* history: for each such key the value of its latest Put
    evictedKeys, \* history: the keys evicted and not put again since
    abs,         \* the abstract cache: a sequence of <<key, value>> pairs
    absRes,      \* what the last call returned on the abstract cache
    pc,          \* threads: the statement each thread is at ("idle": no call)
    loc,         \* threads: the arguments and local variables of each call
    mutex,       \* the sync.RWMutex: its writer (0: none) and its readers
    ref,         \* history: map and heap of the calls run one after another
                 \* in the order in which they took the lock
    overlapped,  \* history: TRUE once two calls have run at the same time
    calls        \* history: the number of calls made where it is bounded

\* The variables of the call history, of the threads, and all of them.
histVars == <<last, touchOrder, written, evictedKeys, abs, absRes>>

threadVars == <<pc, loc, mutex, ref, overlapped, calls>>

vars == <<capacity, cache, head, tail, nodes, panicked, last, touchOrder,
          written, evictedKeys, abs, absRes, pc, loc, mutex, ref, overlapped,
          calls>>

\* ------------------------------------------------------------- helpers
Range(f) == {f[x] : x \in DOMAIN f}

\* len(lru.cache)
Size(c) == Cardinality(DOMAIN c)

\* Display's loop: the nodes met from lru.head.next until lru.tail, following
\* next.  fuel bounds the walk so that it is defined on a malformed list too.
RECURSIVE Walk(_, _, _, _)
Walk(h, current, stop, fuel) ==
    IF current = stop \/ current = Nil \/ fuel = 0
    THEN <<>>
    ELSE <<current>> \o Walk(h, h[current].next, stop, fuel - 1)

Display(h, hd, tl) ==
    IF hd = Nil THEN <<>> ELSE Walk(h, h[hd].next, tl, Cardinality(NodeIds) + 1)

\* The state of the cache as Display prints it.
Traversal == Display(nodes, head, tail)

\* The same walk, collecting the key of each node.
RECURSIVE WalkKeys(_, _, _, _)
WalkKeys(h, current, stop, fuel) ==
    IF current = stop \/ current = Nil \/ fuel = 0
    THEN <<>>
    ELSE <<h[current].key>> \o WalkKeys(h, h[current].next, stop, fuel - 1)

\* The same walk, collecting what Display prints: key and value.
RECURSIVE WalkPairs(_, _, _, _)
WalkPairs(h, current, stop, fuel) ==
    IF current = stop \/ current = Nil \/ fuel = 0
    THEN <<>>
    ELSE << <<h[current].key, h[current].value>> >>
         \o WalkPairs(h, h[current].next, stop, fuel - 1)

TraversalKeys ==
    IF head = Nil THEN <<>>
    ELSE WalkKeys(nodes, nodes[head].next, tail, Cardinality(NodeIds) + 1)
TraversalPairs ==
    IF head = Nil THEN <<>>
    ELSE WalkPairs(nodes, nodes[head].next, tail, Cardinality(NodeIds) + 1)

\* ------------------------------------------------------- list primitives
\* Each primitive returns the new heap and ok = FALSE when it dereferenced nil
\* (the heap then holds the writes made before the panic).

\* A variant of addNode that links the node before the tail sentinel.
addNodeAtTail(h, node) ==
    LET h1 == [h  EXCEPT ![node].next = tail]
        h2 == [h1 EXCEPT ![node].prev = h1[tail].prev]
        tp == h2[tail].prev
    IN  IF tp = Nil
        THEN [h |-> h2, ok |-> FALSE]
        ELSE LET h3 == [h2 EXCEPT ![tp].next = node]
                 h4 == [h3 EXCEPT ![tail].prev = node]
             IN  [h |-> h4, ok |-> TRUE]

addNode(h, node) ==
    LET h1 == [h  EXCEPT ![node].prev = head]
        h2 == [h1 EXCEPT ![node].next = h1[head].next]
        hn == h2[head].next
    IN  IF hn = Nil
        THEN [h |-> h2, ok |-> FALSE]
        ELSE LET h3 == [h2 EXCEPT ![hn].prev = node]
                 h4 == [h3 EXCEPT ![head].next = node]
             IN  [h |-> h4, ok |-> TRUE]

\* A variant of removeNode that does not set the back link of the next node.
removeNodeNoBackLink(h, node) ==
    IF node = Nil
    THEN [h |-> h, ok |-> FALSE]
    ELSE LET prevNode == h[node].prev
             nextNode == h[node].next
         IN  IF prevNode = Nil
             THEN [h |-> h, ok |-> FALSE]
             ELSE [h |-> [h EXCEPT ![prevNode].next = nextNode], ok |-> TRUE]

removeNode(h, node) ==
    IF node = Nil
    THEN [h |-> h, ok |-> FALSE]
    ELSE LET prevNode == h[node].prev
             nextNode == h[node].next
         IN  IF prevNode = Nil
             THEN [h |-> h, ok |-> FALSE]
             ELSE LET h1 == [h EXCEPT ![prevNode].next = nextNode]
                  IN  IF nextNode = Nil
                      THEN [h |-> h1, ok |-> FALSE]
                      ELSE [h |-> [h1 EXCEPT ![nextNode].prev = prevNode],
                            ok |-> TRUE]

\* Variants of moveToHead: one that leaves the list as it is, one that links
\* the node at the front without unlinking it first.
moveToHeadNothing(h, node) == [h |-> h, ok |-> TRUE]

moveToHeadNoRemove(h, node) == addNode(h, node)

moveToHead(h, node) ==
    LET r == removeNode(h, node)
    IN  IF r.ok THEN addNode(r.h, node) ELSE r

\* A variant of popTail that unlinks the first node of the list.
popHead(h) ==
    LET firstNode == h[head].next
        r == removeNode(h, firstNode)
    IN  [h |-> r.h, ok |-> r.ok, node |-> firstNode]

\* A variant of popTail that leaves an empty list alone and hands back the
\* head sentinel.
popTailGuarded(h) ==
    LET lastNode == h[tail].prev
        r == IF lastNode = head THEN [h |-> h, ok |-> TRUE]
             ELSE removeNode(h, lastNode)
    IN  [h |-> r.h, ok |-> r.ok, node |-> lastNode]

popTail(h) ==
    LET lastNode == h[tail].prev
        r == removeNode(h, lastNode)
    IN  [h |-> r.h, ok |-> r.ok, node |-> lastNode]

\* ------------------------------------------------------------ allocation
\* The nodes some live pointer leads to: the closure of the roots (lru.head,
\* lru.tail, the values of lru.cache) under prev and next.
RECURSIVE Reach(_, _)
Reach(h, S) ==
    LET T == S \cup (({h[n].prev : n \in S} \cup {h[n].next : n \in S}) \ {Nil})
    IN  IF T = S THEN S ELSE Reach(h, T)

Live(c, h) == Reach(h, ({head, tail} \cup Range(c)) \ {Nil})

\* &Node[K, V]{...}: the allocator hands out memory that nothing refers to.
NewNode(c, h) ==
    LET free == NodeIds \ Live(c, h)
    IN  CHOOSE n \in free : \A m \in free : n <= m

\* Garbage collection: a node that nothing refers to any more is reclaimed,
\* its slot of the arena returns to the zero Node.
Collect(c, h) ==
    LET live == Live(c, h)
    IN  [n \in NodeIds |-> IF n \in live THEN h[n] ELSE Node]

\* ----------------------------------------------------------- Constructor
Constructor(cap) ==
    [capacity |-> cap,
     cache    |-> << >>,
     head     |-> 0,
     tail     |-> 1,
     nodes    |-> [n \in NodeIds |->
                     IF n = 0 THEN [Node EXCEPT !.next = 1]
                     ELSE IF n = 1 THEN [Node EXCEPT !.prev = 0]
                     ELSE Node]]

\* --------------------------------------------------------- map updates
\* A variant of delete that leaves the map as it is.
deleteNothing(c, k) == c

\* delete(lru.cache, k)
delete(c, k) == [x \in DOMAIN c \ {k} |-> c[x]]

\* lru.cache[k] = n
assign(c, k, n) == [x \in DOMAIN c \cup {k} |-> IF x = k THEN n ELSE c[x]]

\* ------------------------------------------------------------------- Get
\* A variant of Get without the exists test: on a miss it dereferences the
\* nil node the map lookup gave.
GetNoExistsCheck(c, h, key) ==
    IF key \notin DOMAIN c
    THEN [h |-> h, ok |-> FALSE, value |-> 0, found |-> FALSE]
    ELSE LET node == c[key]
             r == moveToHead(h, node)
         IN  [h |-> r.h, ok |-> r.ok, value |-> r.h[node].value, found |-> TRUE]

\* The outcome of lru.Get(key) on map c and heap h: the new heap, whether the
\* call ran to its end, and the two results.
Get(c, h, key) ==
    IF key \notin DOMAIN c
    THEN [h |-> h, ok |-> TRUE, value |-> 0, found |-> FALSE]
    ELSE LET node == c[key]
             r == moveToHead(h, node)
         IN  [h |-> r.h, ok |-> r.ok, value |-> r.h[node].value, found |-> TRUE]

\* ------------------------------------------------------------------- Put
\* Variants of the eviction test: > for >=, and one entry too early.
AtCapacityStrict(n, cap) == n > cap

AtCapacityEarly(n, cap) == n + 1 >= cap

\* The eviction test of Put: len(lru.cache) >= lru.capacity.
AtCapacity(n, cap) == n >= cap

\* Variants of the hit path: one that keeps the old value, one that does not
\* move the node.
PutHitKeepsValue(c, h, key, value) ==
    LET r == moveToHead(h, c[key])
    IN  [cache |-> c, h |-> r.h, ok |-> r.ok, exists |-> TRUE, evicted |-> NoKey,
         popEmpty |-> FALSE]

PutHitNoMove(c, h, key, value) ==
    [cache |-> c, h |-> [h EXCEPT ![c[key]].value = value], ok |-> TRUE,
     exists |-> TRUE, evicted |-> NoKey, popEmpty |-> FALSE]

\* Put when the key is in the map.
PutHit(c, h, key, value) ==
    LET node == c[key]
        h1 == [h EXCEPT ![node].value = value]
        r == moveToHead(h1, node)
    IN  [cache |-> c, h |-> r.h, ok |-> r.ok, exists |-> TRUE, evicted |-> NoKey,
         popEmpty |-> FALSE]

\* Put when the key is not in the map.
PutMiss(cap, c, h, key, value) ==
    LET newNode == NewNode(c, h)
        h1 == [h EXCEPT ![newNode] =
                  [key |-> key, value |-> value, prev |-> Nil, next |-> Nil]]
        full == AtCapacity(Size(c), cap)
        p == IF full THEN popTail(h1) ELSE [h |-> h1, ok |-> TRUE, node |-> Nil]
        empty == full /\ p.node = head
    IN  IF ~p.ok
        THEN [cache |-> c, h |-> Collect(c, p.h), ok |-> FALSE,
              exists |-> FALSE, evicted |-> NoKey, popEmpty |-> empty]
        ELSE LET tk == IF full THEN p.h[p.node].key ELSE NoKey
                 c1 == IF full THEN delete(c, tk) ELSE c
                 c2 == assign(c1, key, newNode)
                 a  == addNode(p.h, newNode)
             IN  [cache |-> c2, h |-> Collect(c2, a.h), ok |-> a.ok,
                  exists |-> FALSE, evicted |-> tk, popEmpty |-> empty]

\* The outcome of lru.Put(key, value) on capacity cap, map c and heap h: the
\* new map and heap, whether the call ran to its end, whether the key existed,
\* the key it evicted (NoKey when none) and whether it called popTail on a list
\* without entries (tail.prev = head).
Put(cap, c, h, key, value) ==
    IF key \in DOMAIN c
    THEN PutHit(c, h, key, value)
    ELSE PutMiss(cap, c, h, key, value)

\* ---------------------------------------------------------- call history
Remove(s, k) == SelectSeq(s, LAMBDA x : x # k)

\* The touch order after a touch of k.
Touch(s, k) == <<k>> \o Remove(s, k)

NoCall == [op |-> "none", key |-> NoKey, value |-> 0, found |-> FALSE,
           ret |-> 0, evicted |-> NoKey, again |-> FALSE, popEmpty |-> FALSE]

\* ------------------------------------------------------ the abstract cache
\* The abstract operations on a duplicate-free sequence a of <<key, value>>
\* pairs, most recently used first: a hit moves the pair to the front, a Put
\* hit also replaces the value, a Put miss prepends the pair and drops the
\* last one if the length was the capacity.
AbsHas(a, k) == \E i \in 1..Len(a) : a[i][1] = k

AbsValue(a, k) == a[CHOOSE i \in 1..Len(a) : a[i][1] = k][2]

AbsWithout(a, k) == SelectSeq(a, LAMBDA p : p[1] # k)

AbsGet(a, k) ==
    IF AbsHas(a, k)
    THEN [seq |-> << <<k, AbsValue(a, k)>> >> \o AbsWithout(a, k),
          value |-> AbsValue(a, k), found |-> TRUE]
    ELSE [seq |-> a, value |-> 0, found |-> FALSE]

AbsPut(cap, a, k, v) ==
    IF AbsHas(a, k)
    THEN [seq |-> << <<k, v>> >> \o AbsWithout(a, k),
          value |-> 0, found |-> TRUE]
    ELSE [seq |-> << <<k, v>> >> \o
                  (IF Len(a) = cap THEN SubSeq(a, 1, Len(a) - 1) ELSE a),
          value |-> 0, found |-> FALSE]

\* The local variables of a thread that is in no call.
NoLocals == [op |-> "none", key |-> NoKey, value |-> 0, exists |-> FALSE,
             node |-> Nil, prevNode |-> Nil, nextNode |-> Nil,
             newNode |-> Nil, popping |-> FALSE, ret |-> 0, found |-> FALSE,
             refRet |-> 0, refFound |-> FALSE]

\* ----------------------------------------------------------------- actions
InitWith(caps) ==
    \E cap \in caps :
        LET lru == Constructor(cap)
        IN  /\ capacity = lru.capacity
            /\ cache = lru.cache
            /\ head = lru.head
            /\ tail = lru.tail
            /\ nodes = lru.nodes
            /\ panicked = FALSE
            /\ last = NoCall
            /\ touchOrder = <<>>
            /\ written = [k \in Keys |-> NoValue]
            /\ evictedKeys = {}
            /\ abs = <<>>
            /\ absRes = [value |-> 0, found |-> FALSE]
            /\ pc = [t \in Threads |-> "idle"]
            /\ loc = [t \in Threads |-> NoLocals]
            /\ mutex = [writer |-> 0, readers |-> {}]
            /\ ref = [cache |-> lru.cache, nodes |-> lru.nodes]
            /\ overlapped = FALSE
            /\ calls = 0

Init == InitWith(1..MaxCap)

CallGet(key) ==
    /\ ~panicked
    /\ \E r \in {Get(cache, nodes, key)} :
           /\ nodes' = r.h
           /\ panicked' = ~r.ok
           /\ last' = [op |-> "Get", key |-> key, value |-> 0,
                       found |-> r.found, ret |-> r.value, evicted |-> NoKey,
                       again |-> (last.op = "Get" /\ last.key = key),
                       popEmpty |-> FALSE]
           /\ touchOrder' = IF r.ok /\ r.found THEN Touch(touchOrder, key)
                            ELSE touchOrder
    /\ \E a \in {AbsGet(abs, key)} :
           /\ abs' = a.seq
           /\ absRes' = [value |-> a.value, found |-> a.found]
    /\ UNCHANGED <<capacity, cache, head, tail, written, evictedKeys>>
    /\ UNCHANGED threadVars

CallPut(key, value) ==
    /\ ~panicked
    /\ \E r \in {Put(capacity, cache, nodes, key, value)} :
           /\ cache' = r.cache
           /\ nodes' = r.h
           /\ panicked' = ~r.ok
           /\ last' = [op |-> "Put", key |-> key, value |-> value,
                       found |-> r.exists, ret |-> 0, evicted |-> r.evicted,
                       again |-> (last.op = "Put" /\ last.key = key),
                       popEmpty |-> r.popEmpty]
           /\ touchOrder' = IF r.ok
                            THEN Touch(Remove(touchOrder, r.evicted), key)
                            ELSE touchOrder
           /\ written' = IF r.ok
                         THEN [k \in Keys |->
                                 IF k = key THEN value
                                 ELSE IF k = r.evicted THEN NoValue
                                 ELSE written[k]]
                         ELSE written
           /\ evictedKeys' = IF r.ok
                             THEN (evictedKeys \ {key}) \cup
                                  ({r.evicted} \ {NoKey})
                             ELSE evictedKeys
    /\ \E a \in {AbsPut(capacity, abs, key, value)} :
           /\ abs' = a.seq
           /\ absRes' = [value |-> a.value, found |-> a.found]
    /\ UNCHANGED <<capacity, head, tail>>
    /\ UNCHANGED threadVars

Next ==
    \/ \E key \in Keys : CallGet(key)
    \/ \E key \in Keys, value \in Values : CallPut(key, value)

Spec == Init /\ [][Next]_vars

\* Every capacity Constructor accepts: it takes any int and tests nothing.
AnyCapacity == -1..MaxCap

InitAny == InitWith(AnyCapacity)

SpecAny == InitAny /\ [][Next]_vars

\* ------------------------------------------------------------- the threads
\* Get and Put statement by statement, one action per statement, for calls
\* made by several threads through a wrapper that takes the mutex.

\* Thread t moves to statement l with local variables v.
Goto(t, l, v) ==
    /\ pc' = [pc EXCEPT ![t] = l]
    /\ loc' = [loc EXCEPT ![t] = v]

At(t, l) == ~panicked /\ pc[t] = l

\* A nil dereference: the statement panics and writes nothing.
Panic(t) ==
    /\ pc' = [pc EXCEPT ![t] = "panic"]
    /\ panicked' = TRUE
    /\ UNCHANGED <<loc, cache, nodes>>

\* The call run on the reference state: the calls one after another.
RefRun(op, key, value) ==
    IF op = "Get"
    THEN LET r == Get(ref.cache, ref.nodes, key)
         IN  [cache |-> ref.cache, nodes |-> r.h, ret |-> r.value,
              found |-> r.found]
    ELSE LET r == Put(capacity, ref.cache, ref.nodes, key, value)
         IN  [cache |-> r.cache, nodes |-> r.h, ret |-> 0, found |-> FALSE]

\* Thread t enters the call op(key, value) with the lock taken.
Enter(t, op, key, value) ==
    \E r \in {RefRun(op, key, value)} :
        /\ ref' = [cache |-> r.cache, nodes |-> r.nodes]
        /\ Goto(t, "lookup", [NoLocals EXCEPT !.op = op, !.key = key,
                                 !.value = value, !.refRet = r.ret,
                                 !.refFound = r.found])

\* A variant of SafeLock whose Lock does not wait for the mutex to be free.
SafeLockNoWait(t, op, key, value) ==
    /\ At(t, "idle")
    /\ op = "Get" => value = 0
    /\ mutex' = [mutex EXCEPT !.writer = t]
    /\ overlapped' = (overlapped \/ mutex.writer # 0 \/ mutex.readers # {})
    /\ Enter(t, op, key, value)
    /\ UNCHANGED <<capacity, cache, head, tail, nodes, panicked, histVars>>

\* SafeLRUCache.Get / SafeLRUCache.Put: s.mutex.Lock(), then the call.
SafeLock(t, op, key, value) ==
    /\ At(t, "idle")
    /\ op = "Get" => value = 0
    /\ mutex.writer = 0 /\ mutex.readers = {}
    /\ mutex' = [mutex EXCEPT !.writer = t]
    /\ Enter(t, op, key, value)
    /\ UNCHANGED <<capacity, cache, head, tail, nodes, panicked, overlapped,
                   histVars>>

\* A Get wrapper that takes the reader lock instead: s.mutex.RLock().
SafeRLock(t, key) ==
    /\ At(t, "idle")
    /\ mutex.writer = 0
    /\ mutex' = [mutex EXCEPT !.readers = @ \cup {t}]
    /\ overlapped' = (overlapped \/ mutex.readers # {})
    /\ Enter(t, "Get", key, 0)
    /\ UNCHANGED <<capacity, cache, head, tail, nodes, panicked, histVars>>

\* node, exists := lru.cache[key], and the branch on exists.
Lookup(t) ==
    /\ At(t, "lookup")
    /\ LET l == loc[t]
           e == l.key \in DOMAIN cache
           n == IF e THEN cache[l.key] ELSE Nil
           v == [l EXCEPT !.exists = e, !.node = n]
       IN  IF ~e /\ l.op = "Get"
           THEN Goto(t, "unlock", [v EXCEPT !.ret = 0, !.found = FALSE])
           ELSE IF e /\ l.op = "Get" THEN Goto(t, "rm1", v)
           ELSE IF e THEN Goto(t, "setval", v)
           ELSE Goto(t, "alloc", v)
    /\ UNCHANGED <<capacity, cache, head, tail, nodes, panicked, mutex, ref,
                   overlapped, histVars, calls>>

\* node.value = value
SetValue(t) ==
    /\ At(t, "setval")
    /\ nodes' = [nodes EXCEPT ![loc[t].node].value = loc[t].value]
    /\ Goto(t, "rm1", loc[t])
    /\ UNCHANGED <<capacity, cache, head, tail, panicked, mutex, ref,
                   overlapped, histVars, calls>>

\* newNode := &Node[K, V]{key: key, value: value}
Alloc(t) ==
    /\ At(t, "alloc")
    /\ NodeIds \ Live(cache, nodes) # {}
    /\ \E n \in {NewNode(cache, nodes)} :
          /\ nodes' = [nodes EXCEPT ![n] = [key |-> loc[t].key,
                          value |-> loc[t].value, prev |-> Nil, next |-> Nil]]
          /\ Goto(t, "full", [loc[t] EXCEPT !.newNode = n])
    /\ UNCHANGED <<capacity, cache, head, tail, panicked, mutex, ref,
                   overlapped, histVars, calls>>

\* if len(lru.cache) >= lru.capacity
CheckFull(t) ==
    /\ At(t, "full")
    /\ IF AtCapacity(Size(cache), capacity)
       THEN Goto(t, "pop", loc[t])
       ELSE Goto(t, "store", loc[t])
    /\ UNCHANGED <<capacity, cache, head, tail, nodes, panicked, mutex, ref,
                   overlapped, histVars, calls>>

\* popTail: lastNode := lru.tail.prev, then removeNode(lastNode)
PopTailRead(t) ==
    /\ At(t, "pop")
    /\ Goto(t, "rm1", [loc[t] EXCEPT !.node = nodes[tail].prev,
                                      !.popping = TRUE])
    /\ UNCHANGED <<capacity, cache, head, tail, nodes, panicked, mutex, ref,
                   overlapped, histVars, calls>>

\* removeNode: prevNode := node.prev
RemoveReadPrev(t) ==
    /\ At(t, "rm1")
    /\ IF loc[t].node = Nil
       THEN Panic(t)
       ELSE /\ Goto(t, "rm2", [loc[t] EXCEPT !.prevNode = nodes[loc[t].node].prev])
            /\ UNCHANGED <<cache, nodes, panicked>>
    /\ UNCHANGED <<capacity, head, tail, mutex, ref, overlapped, histVars, calls>>

\* removeNode: nextNode := node.next
RemoveReadNext(t) ==
    /\ At(t, "rm2")
    /\ Goto(t, "rm3", [loc[t] EXCEPT !.nextNode = nodes[loc[t].node].next])
    /\ UNCHANGED <<capacity, cache, head, tail, nodes, panicked, mutex, ref,
                   overlapped, histVars, calls>>

\* removeNode: prevNode.next = nextNode
RemoveSetNext(t) ==
    /\ At(t, "rm3")
    /\ IF loc[t].prevNode = Nil
       THEN Panic(t)
       ELSE /\ nodes' = [nodes EXCEPT ![loc[t].prevNode].next = loc[t].nextNode]
            /\ Goto(t, "rm4", loc[t])
            /\ UNCHANGED <<cache, panicked>>
    /\ UNCHANGED <<capacity, head, tail, mutex, ref, overlapped, histVars, calls>>

\* A variant of RemoveSetPrev that leaves the back link as it is.
RemoveSetPrevNoWrite(t) ==
    /\ At(t, "rm4")
    /\ Goto(t, IF loc[t].popping THEN "del" ELSE "add1", loc[t])
    /\ UNCHANGED <<capacity, cache, head, tail, nodes, panicked, mutex, ref,
                   overlapped, histVars, calls>>

\* removeNode: nextNode.prev = prevNode
RemoveSetPrev(t) ==
    /\ At(t, "rm4")
    /\ IF loc[t].nextNode = Nil
       THEN Panic(t)
       ELSE /\ nodes' = [nodes EXCEPT ![loc[t].nextNode].prev = loc[t].prevNode]
            /\ Goto(t, IF loc[t].popping THEN "del" ELSE "add1", loc[t])
            /\ UNCHANGED <<cache, panicked>>
    /\ UNCHANGED <<capacity, head, tail, mutex, ref, overlapped, histVars, calls>>

\* delete(lru.cache, tail.key)
Delete(t) ==
    /\ At(t, "del")
    /\ cache' = delete(cache, nodes[loc[t].node].key)
    /\ Goto(t, "store", loc[t])
    /\ UNCHANGED <<capacity, head, tail, nodes, panicked, mutex, ref,
                   overlapped, histVars, calls>>

\* lru.cache[key] = newNode, then addNode(newNode)
Store(t) ==
    /\ At(t, "store")
    /\ cache' = assign(cache, loc[t].key, loc[t].newNode)
    /\ Goto(t, "add1", [loc[t] EXCEPT !.node = loc[t].newNode,
                                      !.popping = FALSE])
    /\ UNCHANGED <<capacity, head, tail, nodes, panicked, mutex, ref,
                   overlapped, histVars, calls>>

\* addNode: node.prev = lru.head
AddSetPrev(t) ==
    /\ At(t, "add1")
    /\ nodes' = [nodes EXCEPT ![loc[t].node].prev = head]
    /\ Goto(t, "add2", loc[t])
    /\ UNCHANGED <<capacity, cache, head, tail, panicked, mutex, ref,
                   overlapped, histVars, calls>>

\* addNode: node.next = lru.head.next
AddSetNext(t) ==
    /\ At(t, "add2")
    /\ nodes' = [nodes EXCEPT ![loc[t].node].next = nodes[head].next]
    /\ Goto(t, "add3", loc[t])
    /\ UNCHANGED <<capacity, cache, head, tail, panicked, mutex, ref,
                   overlapped, histVars, calls>>

\* addNode: lru.head.next.prev = node
AddSetHeadNextPrev(t) ==
    /\ At(t, "add3")
    /\ IF nodes[head].next = Nil
       THEN Panic(t)
       ELSE /\ nodes' = [nodes EXCEPT ![nodes[head].next].prev = loc[t].node]
            /\ Goto(t, "add4", loc[t])
            /\ UNCHANGED <<cache, panicked>>
    /\ UNCHANGED <<capacity, head, tail, mutex, ref, overlapped, histVars, calls>>

\* addNode: lru.head.next = node
AddSetHeadNext(t) ==
    /\ At(t, "add4")
    /\ nodes' = [nodes EXCEPT ![head].next = loc[t].node]
    /\ Goto(t, IF loc[t].op = "Get" THEN "getret" ELSE "unlock", loc[t])
    /\ UNCHANGED <<capacity, cache, head, tail, panicked, mutex, ref,
                   overlapped, histVars, calls>>

\* return node.value, true
GetReturn(t) ==
    /\ At(t, "getret")
    /\ Goto(t, "unlock", [loc[t] EXCEPT !.ret = nodes[loc[t].node].value,
                                         !.found = TRUE])
    /\ UNCHANGED <<capacity, cache, head, tail, nodes, panicked, mutex, ref,
                   overlapped, histVars, calls>>

\* The deferred s.mutex.Unlock() / RUnlock(): the call returns.  A node that
\* a Put has left without a reference is reclaimed.
SafeUnlock(t) ==
    /\ At(t, "unlock")
    /\ mutex' = [writer |-> IF mutex.writer = t THEN 0 ELSE mutex.writer,
                 readers |-> mutex.readers \ {t}]
    /\ nodes' = IF loc[t].op = "Put" THEN Collect(cache, nodes) ELSE nodes
    /\ Goto(t, "idle", NoLocals)
    /\ UNCHANGED <<capacity, cache, head, tail, panicked, ref, overlapped,
                   histVars, calls>>

\* The statements of Get and Put that a thread inside a call runs.
Statement(t) ==
    \/ Lookup(t)
    \/ SetValue(t)
    \/ Alloc(t)
    \/ CheckFull(t)
    \/ PopTailRead(t)
    \/ RemoveReadPrev(t)
    \/ RemoveReadNext(t)
    \/ RemoveSetNext(t)
    \/ RemoveSetPrev(t)
    \/ Delete(t)
    \/ Store(t)
    \/ AddSetPrev(t)
    \/ AddSetNext(t)
    \/ AddSetHeadNextPrev(t)
    \/ AddSetHeadNext(t)
    \/ GetReturn(t)
    \/ SafeUnlock(t)

\* SafeLRUCache of the README: every Get and Put holds the exclusive lock.
NextLocked ==
    \E t \in Threads :
        \/ \E key \in ThreadKeys :
              SafeLock(t, "Get", key, 0) /\ UNCHANGED calls
        \/ \E key \in ThreadKeys, value \in Values :
              SafeLock(t, "Put", key, value) /\ UNCHANGED calls
        \/ Statement(t)

\* The cache the threads share: made by Constructor before they start.
InitThreads == InitWith(1..MaxThreadCap)

SpecLocked == InitThreads /\ [][NextLocked]_vars

\* The values stored in these runs: those a hit alone can return.
StoredValues == 1..MaxVal

\* One more call, of at most MaxCalls.
OneMoreCall == calls < MaxCalls /\ calls' = calls + 1

\* The same wrapper with a reader lock around Get, for runs of at most
\* MaxCalls calls.
NextShared ==
    \E t \in Threads :
        \/ \E key \in ThreadKeys : SafeRLock(t, key) /\ OneMoreCall
        \/ \E key \in ThreadKeys, value \in StoredValues :
              SafeLock(t, "Put", key, value) /\ OneMoreCall
        \/ Statement(t)

SpecShared == InitThreads /\ [][NextShared]_vars

\* ------------------------------------------------- what the claims speak of
StoredKeys == DOMAIN cache

\* The value stored for key k: the value field of the node the map gives.
ValueOf(k) == nodes[cache[k]].value

\* The index of k in the sequence s, 0 when k is not in it.
Pos(s, k) == IF \E i \in 1..Len(s) : s[i] = k
             THEN CHOOSE i \in 1..Len(s) : s[i] = k
             ELSE 0

\* Key a was touched after key b (both have a touch on record).
TouchedAfter(order, a, b) ==
    Pos(order, a) # 0 /\ Pos(order, b) # 0 /\ Pos(order, a) < Pos(order, b)

\* The key of S whose last touch is the oldest, NoKey when S has no touched key.
LeastRecentlyTouched(order, S) ==
    LET f == SelectSeq(order, LAMBDA k : k \in S)
    IN  IF f = <<>> THEN NoKey ELSE f[Len(f)]

Distinct(s) == \A i, j \in 1..Len(s) : i # j => s[i] # s[j]

\* The step is a completed call of Get(k) / of Put(k, v), told from the call
\* record of the state it leads to.
IsGet == last'.op = "Get"
IsPut == last'.op = "Put"

\* --------------------------------------------------------------------- C1
\* C1: for a cache constructed with capacity >= 1, at all times and so after
\* every Put, the number of stored entries, len(cache), equals the number of
\* non-sentinel list nodes and is at most capacity.
C1_SizeBound ==
    /\ Size(cache) <= capacity
    /\ Len(Traversal) = Size(cache)

\* A Put has just evicted an entry of a full cache.
C1_Witness ==
    last.op = "Put" /\ last.evicted # NoKey /\ Size(cache) = capacity

\* --------------------------------------------------------------------- C2
\* C2: when Put inserts a key that is not in the cache while the cache holds
\* exactly capacity entries, the one entry removed is that of the key whose
\* last touch (Get hit or Put) is the oldest among the stored keys, and a Get
\* of that key right afterwards returns found = false.
C2_EvictsLeastRecentlyTouched ==
    [][(IsPut /\ last'.key \notin StoredKeys /\ Size(cache) = capacity) =>
        LET victim == LeastRecentlyTouched(touchOrder, StoredKeys)
        IN  /\ victim \in StoredKeys
            /\ StoredKeys \ StoredKeys' = {victim}
            /\ StoredKeys' = (StoredKeys \ {victim}) \cup {last'.key}
            /\ Len(Traversal') = Len(Traversal)
            /\ \A i \in 1..Len(TraversalKeys') : TraversalKeys'[i] # victim
            /\ ~Get(cache', nodes', victim).found]_vars

\* A Put of a new key into a full cache of capacity 2 has evicted a key, which
\* is stored no more.
C2_Witness ==
    /\ last.op = "Put" /\ ~last.found /\ capacity = 2
    /\ last.evicted # NoKey /\ last.evicted \notin StoredKeys

\* --------------------------------------------------------------------- C3
\* C3: right after Get(k) on a present key, and right after any Put(k, v),
\* k is the first element of the front-to-back traversal: head.next holds k.
C3_TouchedKeyIsFirst ==
    ((last.op = "Get" /\ last.found) \/ last.op = "Put") =>
        /\ nodes[head].next # tail
        /\ nodes[nodes[head].next].key = last.key
        /\ TraversalKeys[1] = last.key

\* A Get hit on a cache that holds two entries.
C3_Witness ==
    last.op = "Get" /\ last.found /\ Size(cache) = 2

\* --------------------------------------------------------------------- C4
\* C4: after every Get or Put the keys met on a front-to-back traversal are
\* pairwise distinct and are exactly the keys of the map, and the map entry of
\* each key k points to a node of the list whose key field is k.
C4_IndexListCorrespondence ==
    /\ Distinct(TraversalKeys)
    /\ Range(TraversalKeys) = StoredKeys
    /\ \A k \in StoredKeys :
          /\ nodes[cache[k]].key = k
          /\ cache[k] \in Range(Traversal)

\* A Put has evicted an entry and the cache holds two entries.
C4_Witness ==
    last.op = "Put" /\ last.evicted # NoKey /\ Size(cache) = 2

\* --------------------------------------------------------------------- C5
\* C5: Get(k) on a present key returns found = true and the value given by
\* the most recent Put(k, v) since k was last inserted; Get changes neither
\* the key set nor the value stored for any key.
C5_GetReturnsLastPut ==
    [][IsGet =>
        /\ (last'.key \in StoredKeys =>
               last'.found /\ last'.ret = written[last'.key])
        /\ StoredKeys' = StoredKeys
        /\ \A k \in StoredKeys : ValueOf(k)' = ValueOf(k)]_vars

\* A Get hit has returned the non-zero value that the latest Put of its key
\* wrote, while another key stores another value.
C5_Witness ==
    /\ last.op = "Get" /\ last.found /\ last.ret = 1 /\ written[last.key] = 1
    /\ \E k \in StoredKeys : k # last.key /\ ValueOf(k) = 0

C7_PutHitOverwrites ==
    [][(IsPut /\ last'.key \in StoredKeys) =>
        /\ StoredKeys' = StoredKeys
        /\ Size(cache') = Size(cache)
        /\ Len(Traversal') = Len(Traversal)
        /\ nodes'[cache'[last'.key]].value = last'.value
        /\ TraversalPairs'[1] = <<last'.key, last'.value>>
        /\ last'.evicted = NoKey]_vars

\* A Put on a present key of a full cache of capacity 2, the key of the Put
\* before it.
C7_Witness ==
    /\ last.op = "Put" /\ last.found /\ capacity = 2 /\ Size(cache) = capacity
    /\ last.value = 1 /\ last.again

\* --------------------------------------------------------------------- C8
\* C8: Put of an absent key evicts if and only if the cache holds exactly
\* capacity entries before the call; when size < capacity no stored key is
\* removed and the size grows by exactly one.
C8_EvictsOnlyWhenFull ==
    [][(IsPut /\ last'.key \notin StoredKeys) =>
        /\ (StoredKeys \ StoredKeys' # {}) <=> (Size(cache) = capacity)
        /\ (last'.evicted # NoKey) <=> (Size(cache) = capacity)
        /\ Size(cache) < capacity =>
              /\ StoredKeys' = StoredKeys \cup {last'.key}
              /\ Size(cache') = Size(cache) + 1
              /\ Len(Traversal') = Len(Traversal) + 1]_vars

\* A Put has inserted a second key into a cache of capacity 2 without evicting.
C8_Witness ==
    /\ last.op = "Put" /\ ~last.found /\ last.evicted = NoKey
    /\ capacity = 2 /\ Size(cache) = 2

\* --------------------------------------------------------------------- C9
\* C9: for a present key k, the second of two Get(k) calls in a row returns
\* the same value as the first and leaves the cache exactly as the first call
\* left it (same map, same nodes and links).
C9_RepeatedGetIsIdempotent ==
    [][(IsGet /\ last'.again /\ last.found /\ last'.key = last.key) =>
        /\ last'.found
        /\ last'.ret = last.ret
        /\ UNCHANGED <<capacity, cache, head, tail, nodes>>
        /\ TraversalPairs' = TraversalPairs]_vars

\* The second of two Get hits in a row on the same key, with another key stored.
C9_Witness ==
    last.op = "Get" /\ last.again /\ last.found /\ Size(cache) >= 2

\* -------------------------------------------------------------------- C10
\* C10: after every Get or Put the front-to-back traversal lists the stored
\* entries by the time of their last touch, latest first: for any two
\* stored keys a and b, a precedes b in the list exactly when a was touched
\* more recently than b.
C10_TraversalIsRecencyOrder ==
    \A i, j \in 1..Len(TraversalKeys) :
        i # j => ((i < j) <=>
                  TouchedAfter(touchOrder, TraversalKeys[i], TraversalKeys[j]))

\* A Get hit, not a repeated one, on a cache whose two stored keys both have a
\* touch on record.
C10_Witness ==
    /\ last.op = "Get" /\ last.found /\ ~last.again
    /\ Len(Traversal) = 2 /\ Len(touchOrder) = 2

\* -------------------------------------------------------------------- C14
\* The node that ends the walk from head.next: tail on a well-formed list.
WalkEnd ==
    IF Len(Traversal) = 0 THEN nodes[head].next
    ELSE nodes[Traversal[Len(Traversal)]].next

StoredNodes == Range(cache) \cup Range(Traversal)

\* C14: after every Get or Put the list is a well-formed cycle-free doubly
\* linked chain between the two sentinels: following next from head reaches
\* tail after exactly size + 1 steps, n.next.prev = n for head and every stored
\* node, n.prev.next = n for tail and every stored node, and the sentinels are
\* the nodes Constructor made, are not in the map and are not in the walk.
C14_WellFormedChain ==
    /\ head = Constructor(capacity).head
    /\ tail = Constructor(capacity).tail
    /\ head # tail
    /\ nodes[head].prev = Nil
    /\ nodes[tail].next = Nil
    /\ Range(cache) \cap {head, tail} = {}
    /\ Range(Traversal) \cap {head, tail} = {}
    /\ Distinct(Traversal)
    /\ Len(Traversal) = Size(cache)
    /\ WalkEnd = tail
    /\ \A n \in {head} \cup StoredNodes :
          nodes[n].next # Nil /\ nodes[nodes[n].next].prev = n
    /\ \A n \in {tail} \cup StoredNodes :
          nodes[n].prev # Nil /\ nodes[nodes[n].prev].next = n

\* A Get hit has moved the last of two nodes to the front.
C14_Witness ==
    /\ last.op = "Get" /\ last.found /\ Len(Traversal) = 2
    /\ nodes[tail].prev # cache[last.key]
    /\ nodes[head].next = cache[last.key]

C19_SizeNeverDecreases ==
    [][/\ Size(cache') >= Size(cache)
       /\ Size(cache) = capacity => Size(cache') = capacity]_vars

\* A Put has evicted an entry of a full cache of capacity 2: the size went
\* down and up again within the call.
C19_Witness ==
    /\ last.op = "Put" /\ last.evicted # NoKey /\ ~last.again
    /\ capacity = 2 /\ Size(cache) = capacity

\* -------------------------------------------------------------------- C11
\* C11: constructing a cache with capacity <= 0 fails: there is no cache of
\* non-positive capacity on which a Get or a Put is ever called.
C11_NonPositiveCapacityRejected ==
    capacity <= 0 => last.op = "none"

\* -------------------------------------------------------------------- C15
\* C15: for every cache that Constructor returns, Put never calls popTail
\* while the list holds no entries (tail.prev = head), so popTail never
\* unlinks a sentinel.
C15_NeverPopsEmptyList ==
    ~last.popEmpty

C16_EvictedKeyStaysAbsent ==
    [][\A k \in evictedKeys :
          /\ k \notin StoredKeys
          /\ (IsGet /\ last'.key = k) => ~last'.found
          /\ (k \in StoredKeys') => (IsPut /\ last'.key = k)
          /\ (k \notin evictedKeys') => (IsPut /\ last'.key = k)]_vars

\* A Get of an evicted key has missed after a Put of another key went by.
C16_Witness ==
    /\ last.op = "Get" /\ ~last.found /\ last.key \in evictedKeys
    /\ Size(cache) = capacity /\ Cardinality(evictedKeys) = 2

\* -------------------------------------------------------------------- C20
\* C20: for capacity >= 1 the map and the linked list refine the abstract
\* cache: after every sequence of Get and Put the front-to-back traversal of
\* (key, value) pairs equals the abstract sequence, which is duplicate-free
\* and no longer than capacity, and the last call returned the same result
\* (found, and the value for a Get) on both.
C20_RefinesAbstractCache ==
    /\ TraversalPairs = abs
    /\ Len(abs) <= capacity
    /\ Distinct([i \in 1..Len(abs) |-> abs[i][1]])
    /\ StoredKeys = {abs[i][1] : i \in 1..Len(abs)}
    /\ last.op # "none" => last.found = absRes.found
    /\ last.op = "Get" => last.ret = absRes.value

\* A Get hit on the last of two pairs, after an eviction took place.
C20_Witness ==
    /\ last.op = "Get" /\ last.found /\ absRes.found /\ Len(abs) = 2
    /\ abs[1][1] = last.key /\ evictedKeys # {} /\ absRes.value = 1

\* -------------------------------------------------------------------- C12
\* No thread is inside a call: the mutex is free.
Quiescent == mutex.writer = 0 /\ mutex.readers = {}

\* C12: when every Get and Put holds the one exclusive lock for the whole
\* call, no two calls overlap and none panics; whenever no call is running the
\* size bound, the index/list correspondence and the well-formedness of the
\* list hold and the map and the nodes are those of the same calls run one
\* after another in the order the lock was taken; and every Get returns what
\* it returns in that sequential run.
C12_LockedCallsAreSequential ==
    /\ ~overlapped /\ ~panicked
    /\ Quiescent =>
          /\ C1_SizeBound
          /\ C4_IndexListCorrespondence
          /\ C14_WellFormedChain
          /\ cache = ref.cache
          /\ nodes = ref.nodes
    /\ \A t \in Threads :
          (pc[t] = "unlock" /\ loc[t].op = "Get") =>
              /\ loc[t].ret = loc[t].refRet
              /\ loc[t].found = loc[t].refFound

\* Thread 2 returns from a Get that found key 1 with value 1 in a full cache
\* while thread 1 is outside a call.
C12_Witness ==
    /\ pc[2] = "unlock" /\ pc[1] = "idle"
    /\ loc[2].op = "Get" /\ loc[2].key = 1
    /\ loc[2].found /\ loc[2].ret = 1
    /\ Size(cache) = capacity

\* -------------------------------------------------------------------- C13
\* C13: Get writes the list, so a reader lock around Get does not keep the
\* list: as long as no two calls have overlapped no call panics and between
\* calls the list is well formed and agrees with the map, and two Get calls
\* on present keys that hold the reader lock together can leave, after both
\* have returned, a list that is malformed or disagrees with the map.
C13_SoundUntilCallsOverlap ==
    ~overlapped =>
        /\ ~panicked
        /\ Quiescent => (C14_WellFormedChain /\ C4_IndexListCorrespondence)

\* Two Gets have held the reader lock together, both have returned without a
\* panic, and the list is malformed or disagrees with the map.
C13_Witness ==
    /\ overlapped /\ ~panicked /\ Quiescent
    /\ ~(C14_WellFormedChain /\ C4_IndexListCorrespondence)

=============================================================================
